---- MODULE Spec2Model ----
(***************************************************************************)
(* The rope simulation of src/main.rs: the Vec2 arithmetic, RopeSegment    *)
(* and Rope, with Rope::tick taken one loop iteration at a time.           *)
(*                                                                         *)
(* f64 is modelled as binary floating point with round-to-nearest-even     *)
(* and a significand of Precision bits (f64 has 53); the exponent is       *)
(* unbounded, so overflow to infinity and subnormals are not modelled.     *)
(* A float is [m |-> significand, e |-> exponent], its value m * 2^e,      *)
(* with m = 0 /\ e = 0 for zero and 2^(Precision-1) <= |m| < 2^Precision   *)
(* otherwise.  0.0/0.0 is NaN.                                             *)
(***************************************************************************)
EXTENDS Integers, Sequences, FiniteSets

VARIABLES
  rope,        \* the Rope: [cursor, segments]
  pc,          \* where Rope::tick stands: "idle" (between calls), "springs", "integrate"
  i,           \* the index of the running for loop of Rope::tick
  frame,       \* iterations of main's loop completed
  substep,     \* Rope::tick calls completed in the current frame
  origin,      \* history: the pos given to Rope::new
  events,      \* history: the Rope::pull calls so far, [frame, d]
  start,       \* history: the rope when the current (or last) Rope::tick began
  log,         \* history: the calls that Rope::tick has made: [op, self, linked,
               \*   was, now, f], the segment acted on before and after, and the
               \*   force the call added (pull, spring) or integrated (tick)
  vec0,        \* the vector a run of rotated90 calls started from
  vec,         \* the result of that run
  flags        \* the cw arguments of that run

vars == <<rope, pc, i, frame, substep, origin, events, start, log, vec0, vec, flags>>
ropeVars == <<rope, pc, i, frame, substep, origin, events, start, log>>
rotVars == <<vec0, vec, flags>>

\* ------------------------------------------------------------------ f64

\* Operands are bound once, v \in {operand}, so that an operand is worked out
\* once however often the body reads it.
Only(S) == CHOOSE v \in S : TRUE

Precision == 24

Pow2 == [k \in 0..30 |-> 2^k]

FZero == [m |-> 0, e |-> 0]
NaN == [m |-> 0, e |-> 1]

IsNaN(a) == a = NaN

Abs(n) == IF n < 0 THEN -n ELSE n
Sgn(n) == IF n < 0 THEN -1 ELSE 1

\* The number of bits of n, 0 <= n < 2^31.
BitLen(n) ==
  IF n >= Pow2[30] THEN 31
  ELSE CHOOSE k \in 0..30 : n < Pow2[k] /\ (k = 0 \/ n >= Pow2[k-1])

\* sgn * n * 2^e, n >= 0, rounded to nearest (ties to even) to Precision
\* bits; sticky says that the exact value lies strictly above n * 2^e (in
\* magnitude) and below (n+1) * 2^e.
RoundPack(sgn_, n_, e_, sticky_) ==
  Only({
    IF n = 0 THEN FZero
    ELSE IF len <= Precision
    THEN [m |-> sgn * n * Pow2[Precision - len], e |-> e - (Precision - len)]
    ELSE LET k == len - Precision
             q == n \div Pow2[k]
             rem == n % Pow2[k]
             half == Pow2[k-1]
             up == rem > half \/ (rem = half /\ (sticky \/ q % 2 = 1))
         IN IF up /\ q + 1 = Pow2[Precision]
            THEN [m |-> sgn * Pow2[Precision-1], e |-> e + k + 1]
            ELSE [m |-> sgn * (IF up THEN q + 1 ELSE q), e |-> e + k]
    : sgn \in {sgn_}, n \in {n_}, e \in {e_}, sticky \in {sticky_},
      len \in {BitLen(n_)} })

\* An integer literal as a float (as in 20.0).
FromInt(n) == RoundPack(Sgn(n), Abs(n), 0, FALSE)

FNeg(a_) == Only({ IF IsNaN(a) THEN NaN ELSE [m |-> -a.m, e |-> a.e] : a \in {a_} })

\* a + b for nonzero a and b with a.e > b.e: b is shifted right to a's
\* exponent, keeping three more bits and whether anything was lost.
AddAligned(a, b) ==
  LET d == a.e - b.e IN
  IF d > Precision + 2 THEN a
  ELSE LET A8 == Abs(a.m) * 8
           B8 == Abs(b.m) * 8
           bs == B8 \div Pow2[d]
           st == B8 % Pow2[d] # 0
           same == Sgn(a.m) = Sgn(b.m)
           n == IF same THEN A8 + bs
                ELSE IF st THEN A8 - bs - 1 ELSE A8 - bs
       IN RoundPack(Sgn(a.m), n, a.e - 3, st)

FAdd(a_, b_) ==
  Only({
    IF IsNaN(a) \/ IsNaN(b) THEN NaN
    ELSE IF a.m = 0 THEN b
    ELSE IF b.m = 0 THEN a
    ELSE IF a.e = b.e THEN RoundPack(Sgn(a.m + b.m), Abs(a.m + b.m), a.e, FALSE)
    ELSE IF a.e > b.e THEN AddAligned(a, b)
    ELSE AddAligned(b, a)
    : a \in {a_}, b \in {b_} })

FSub(a, b) == FAdd(a, FNeg(b))

Limb == Pow2[12]

\* The product of the significands A and B as <<hi, lo>>, hi * 2^24 + lo.
MulWide(A, B) ==
  LET ah == A \div Limb
      al == A % Limb
      bh == B \div Limb
      bl == B % Limb
      cross == ah * bl + al * bh
      low == (cross % Limb) * Limb + al * bl
  IN <<ah * bh + cross \div Limb + low \div Pow2[24], low % Pow2[24]>>

FMul(a_, b_) ==
  Only({
    IF IsNaN(a) \/ IsNaN(b) THEN NaN
    ELSE IF a.m = 0 \/ b.m = 0 THEN FZero
    ELSE Only({ RoundPack(Sgn(a.m) * Sgn(b.m), p[1] * 64 + p[2] \div Pow2[18],
                          a.e + b.e + 18, p[2] % Pow2[18] # 0)
                : p \in {MulWide(Abs(a.m), Abs(b.m))} })
    : a \in {a_}, b \in {b_} })

\* Long division, seven bits a step: <<quotient, remainder>> of r * 2^(7k) / B
\* carried on from quotient q.
RECURSIVE DivSteps(_, _, _, _)
DivSteps(q_, r_, B, k) ==
  IF k = 0 THEN <<q_, r_>>
  ELSE Only({ DivSteps(q, r, B, k - 1)
              : q \in {q_ * 128 + (r_ * 128) \div B}, r \in {(r_ * 128) % B} })

FDiv(a_, b_) ==
  Only({
    IF IsNaN(a) \/ IsNaN(b) THEN NaN
    ELSE IF b.m = 0 THEN NaN
    ELSE IF a.m = 0 THEN FZero
    ELSE Only({ RoundPack(Sgn(a.m) * Sgn(b.m), qr[1], a.e - b.e - 28, qr[2] # 0)
                : qr \in {DivSteps(Abs(a.m) \div Abs(b.m), Abs(a.m) % Abs(b.m),
                                   Abs(b.m), 4)} })
    : a \in {a_}, b \in {b_} })

\* The integer square root of n < 2^26, bit by bit from bit k down.
RECURSIVE IsqrtBits(_, _, _)
IsqrtBits(n, s_, k) ==
  IF k < 0 THEN s_
  ELSE Only({ IsqrtBits(n, s, k - 1)
              : s \in {IF (s_ + Pow2[k]) * (s_ + Pow2[k]) <= n
                       THEN s_ + Pow2[k] ELSE s_} })

\* <<s, r>> with s the integer square root of A2 * 2^26 and r what is left,
\* for 2^24 <= A2 < 2^26, from the root s1 of A2.
SqrtWide(A2, s1) ==
  LET r1 == A2 - s1 * s1
      q == (r1 * 8192) \div (2 * s1)
      u == (r1 * 8192) % (2 * s1)
      s0 == s1 * 8192 + q
      r0 == u * 8192 - q * q
  IN IF r0 < 0 THEN <<s0 - 1, r0 + 2 * s0 - 1>> ELSE <<s0, r0>>

FSqrt(a_) ==
  Only({
    IF IsNaN(a) \/ a.m < 0 THEN NaN
    ELSE IF a.m = 0 THEN FZero
    ELSE LET odd == a.e % 2 = 1
             A2 == IF odd THEN 2 * a.m ELSE 4 * a.m
             e2 == IF odd THEN a.e - 1 ELSE a.e - 2
         IN Only({ RoundPack(1, sr[1], (e2 - 26) \div 2, sr[2] # 0)
                   : sr \in {SqrtWide(A2, IsqrtBits(A2, 0, 12))} })
    : a \in {a_} })

FLt(a_, b_) ==
  \E a \in {a_}, b \in {b_} :
    IF IsNaN(a) \/ IsNaN(b) THEN FALSE
    ELSE IF a.m = 0 THEN b.m > 0
    ELSE IF b.m = 0 THEN a.m < 0
    ELSE IF Sgn(a.m) # Sgn(b.m) THEN a.m < 0
    ELSE IF a.e # b.e THEN (a.e < b.e) = (a.m > 0)
    ELSE a.m < b.m

FGt(a, b) == FLt(b, a)

FLe(a_, b_) == \E a \in {a_}, b \in {b_} : FLt(a, b) \/ (~IsNaN(a) /\ a = b)

\* ---------------------------------------------------------- constants

ZERO_THRESHOLD == FDiv(FromInt(1), FromInt(100000))
SPEED_CAP == FromInt(100)
FORCE_CAP == FromInt(50)

MASS == FDiv(FromInt(5), FromInt(10))
STIFFNESS == FDiv(FromInt(5), FromInt(10))
DAMPING == FDiv(FromInt(15), FromInt(1000))
LENGTH == FromInt(20)
STATIC_FRICTION == FDiv(FromInt(16), FromInt(10000))
KINETIC_FRICTION == FDiv(FromInt(8), FromInt(10000))
CURSOR_GAIN == FDiv(FromInt(5), FromInt(10000))
SUBSTEPS == 15

\* ----------------------------------------------------------------- Vec2

\* A Vec2 is [x, y, unguarded]: the two f64 fields, and a history flag that
\* is TRUE when the value was computed, directly or through later
\* arithmetic, from normalized() or project_onto() of a vector shorter than
\* ZERO_THRESHOLD.
Vec(x, y) == [x |-> x, y |-> y, unguarded |-> FALSE]

ZERO == Vec(FZero, FZero)

length(self_) ==
  Only({ FSqrt(FAdd(FMul(self.x, self.x), FMul(self.y, self.y))) : self \in {self_} })

add(self_, other_) ==
  Only({ [x |-> FAdd(self.x, other.x), y |-> FAdd(self.y, other.y),
          unguarded |-> self.unguarded \/ other.unguarded]
         : self \in {self_}, other \in {other_} })

sub(self_, other_) ==
  Only({ [x |-> FSub(self.x, other.x), y |-> FSub(self.y, other.y),
          unguarded |-> self.unguarded \/ other.unguarded]
         : self \in {self_}, other \in {other_} })

div(self_, rhs_) ==
  Only({ [x |-> FDiv(self.x, rhs), y |-> FDiv(self.y, rhs), unguarded |-> self.unguarded]
         : self \in {self_}, rhs \in {rhs_} })

mul(self_, rhs_) ==
  Only({ [x |-> FMul(self.x, rhs), y |-> FMul(self.y, rhs), unguarded |-> self.unguarded]
         : self \in {self_}, rhs \in {rhs_} })

normalized(self_) ==
  Only({ [div(self, len) EXCEPT !.unguarded = self.unguarded \/ FLt(len, ZERO_THRESHOLD)]
         : self \in {self_}, len \in {length(self_)} })

\* length_sub that forgets to shorten: a vector long enough comes back whole.
length_sub_whole(self_, amnt_) ==
  Only({ IF FLt(len, amnt) \/ FLt(len, ZERO_THRESHOLD) THEN ZERO ELSE self
         : self \in {self_}, amnt \in {amnt_}, len \in {length(self_)} })

length_sub(self_, amnt_) ==
  Only({ IF FLt(len, amnt) \/ FLt(len, ZERO_THRESHOLD)
         THEN ZERO
         ELSE sub(self, mul(normalized(self), amnt))
         : self \in {self_}, amnt \in {amnt_}, len \in {length(self_)} })

\* length_clamped without the clamp.
length_unclamped(self_, amnt_) == self_

length_clamped(self_, amnt_) ==
  Only({ IF FLt(len, amnt)
         THEN self
         ELSE mul(normalized(self), amnt)
         : self \in {self_}, amnt \in {amnt_}, len \in {length(self_)} })

dot(self_, other_) ==
  Only({ FAdd(FMul(self.x, other.x), FMul(self.y, other.y))
         : self \in {self_}, other \in {other_} })

project_onto(self_, other_) ==
  Only({ [mul(normalized(other), FDiv(dot(self, other), len)) EXCEPT
            !.unguarded = self.unguarded \/ other.unguarded \/ FLt(len, ZERO_THRESHOLD)]
         : self \in {self_}, other \in {other_}, len \in {length(other_)} })

\* A plain quarter turn, with no look at the quadrant.
rotated90_plain(self_, cw_) ==
  Only({ IF cw
         THEN [x |-> FMul(self.y, FromInt(-1)), y |-> self.x, unguarded |-> self.unguarded]
         ELSE [x |-> self.y, y |-> FMul(self.x, FromInt(-1)), unguarded |-> self.unguarded]
         : self \in {self_}, cw \in {cw_} })

\* rotated90 whose first arm swaps the components and negates neither.
rotated90_swap(self_, cw_) ==
  Only({ IF (FLt(self.x, FZero) # FLt(self.y, FZero)) # cw
         THEN [x |-> self.y, y |-> self.x, unguarded |-> self.unguarded]
         ELSE [x |-> self.y, y |-> FMul(self.x, FromInt(-1)), unguarded |-> self.unguarded]
         : self \in {self_}, cw \in {cw_} })

rotated90(self_, cw_) ==
  Only({ IF (FLt(self.x, FZero) # FLt(self.y, FZero)) # cw
         THEN [x |-> FMul(self.y, FromInt(-1)), y |-> self.x, unguarded |-> self.unguarded]
         ELSE [x |-> self.y, y |-> FMul(self.x, FromInt(-1)), unguarded |-> self.unguarded]
         : self \in {self_}, cw \in {cw_} })

\* ---------------------------------------------------------- RopeSegment

RopeSegment_pull(self_, force_) ==
  Only({ [self EXCEPT !.force = add(self.force, force)]
         : self \in {self_}, force \in {force_} })

\* pull_dampened that damps the speed of self, not the speed of self
\* relative to linked.
pull_dampened_absolute(self, linked, pull) ==
  Only({ Only({ add(pull, spring_damping)
                : spring_damping \in {mul(spring_speed, DAMPING)} })
         : spring_speed \in {project_onto(self.speed, pull)} })

\* What apply_force_to_linked_segment hands to linked.pull, given its pull.
pull_dampened(self, linked, pull) ==
  Only({ Only({ add(pull, spring_damping)
                : spring_damping \in {mul(spring_speed, DAMPING)} })
         : spring_speed \in {project_onto(sub(self.speed, linked.speed), pull)} })

\* apply_force_to_linked_segment without the early return on a pull shorter
\* than ZERO_THRESHOLD.
apply_force_unguarded(self_, linked_) ==
  Only({ RopeSegment_pull(linked,
                          mul(add(pull, mul(project_onto(sub(self.speed, linked.speed), pull),
                                            DAMPING)), STIFFNESS))
         : self \in {self_}, linked \in {linked_},
           pull \in {length_sub(sub(self_.pos, linked_.pos), LENGTH)} })

\* apply_force_to_linked_segment of a spring with no rest length: it pulls
\* at any distance above ZERO_THRESHOLD.
apply_force_no_rest_length(self_, linked_) ==
  Only({ IF FLt(length(pull), ZERO_THRESHOLD) THEN linked
         ELSE RopeSegment_pull(linked,
                               mul(add(pull, mul(project_onto(sub(self.speed, linked.speed), pull),
                                                 DAMPING)), STIFFNESS))
         : self \in {self_}, linked \in {linked_},
           pull \in {length_sub(sub(self_.pos, linked_.pos), ZERO_THRESHOLD)} })

\* The segment `linked` after self.apply_force_to_linked_segment(&mut linked).
apply_force_to_linked_segment(self_, linked_) ==
  Only({ IF FLt(length(pull), ZERO_THRESHOLD) THEN linked
         ELSE RopeSegment_pull(linked, mul(pull_dampened(self, linked, pull), STIFFNESS))
         : self \in {self_}, linked \in {linked_},
           pull \in {length_sub(sub(self_.pos, linked_.pos), LENGTH)} })

\* tick_force that keeps the speed of a segment at rest.
tick_force_keeps_speed(self_) ==
  Only({ [speed |-> self.speed,
          force |-> length_clamped(IF at_rest
                                   THEN length_sub(self.force, STATIC_FRICTION)
                                   ELSE self.force, FORCE_CAP),
          friction_applied |-> at_rest]
         : self \in {self_}, at_rest \in {FLt(length(self_.speed), ZERO_THRESHOLD)} })

\* RopeSegment::tick up to the clamp of the force, lines 145-151: [speed,
\* force, friction_applied].
tick_force(self_) ==
  Only({ [speed |-> IF at_rest THEN ZERO ELSE self.speed,
          force |-> length_clamped(IF at_rest
                                   THEN length_sub(self.force, STATIC_FRICTION)
                                   ELSE self.force, FORCE_CAP),
          friction_applied |-> at_rest]
         : self \in {self_}, at_rest \in {FLt(length(self_.speed), ZERO_THRESHOLD)} })

\* RopeSegment::tick from the integration of the force on, lines 152-158.
tick_speed(t_) ==
  Only({ Only({ length_clamped(IF ~t.friction_applied
                               THEN length_sub(speed, FDiv(KINETIC_FRICTION, MASS))
                               ELSE speed, SPEED_CAP)
                : speed \in {add(t.speed, div(t.force, MASS))} })
         : t \in {t_} })

\* RopeSegment::tick that leaves the force in place.
RopeSegment_tick_keeps_force(self_) ==
  Only({ [pos |-> add(self.pos, speed), speed |-> speed, force |-> self.force]
         : self \in {self_}, speed \in {tick_speed(tick_force(self_))} })

RopeSegment_tick(self_) ==
  Only({ [pos |-> add(self.pos, speed), speed |-> speed, force |-> ZERO]
         : self \in {self_}, speed \in {tick_speed(tick_force(self_))} })

\* ----------------------------------------------------------------- Rope

Rope_new(n, pos) ==
  [cursor |-> pos,
   segments |-> [k \in 1..n |-> [pos |-> pos, speed |-> ZERO, force |-> ZERO]]]

Rope_pull(self, x, y) ==
  [self EXCEPT !.cursor = add(self.cursor, Vec(x, y))]

\* The steps of Rope::tick give [rope, calls]: the rope after the step and
\* the calls the step made.

\* A call that Rope::tick makes, for the log: the segment acted on before and
\* after, and the force the call added (pull, spring) or integrated (tick).
Entry(op, self, linked, was, now, f) ==
  [op |-> op, self |-> self, linked |-> linked, was |-> was, now |-> now, f |-> f]

\* The force that self.apply_force_to_linked_segment(linked) adds.
AddedForce(self, linked) ==
  apply_force_to_linked_segment(self, [linked EXCEPT !.force = ZERO]).force


\* Rope::tick, lines 187-190: the pull of segment 0 toward the cursor.
Rope_tick_cursor(self) ==
  Only({ IF FGt(length(diff), ZERO_THRESHOLD)
         THEN Only({ [rope |-> [self EXCEPT !.segments[1] = now],
                      calls |-> <<Entry("pull", 0, 0, self.segments[1], now,
                                        mul(diff, CURSOR_GAIN))>>]
                     : now \in {[self.segments[1] EXCEPT
                                   !.force = add(@, mul(diff, CURSOR_GAIN))]} })
         ELSE [rope |-> self, calls |-> << >>]
         : diff \in {sub(self.cursor, self.segments[1].pos)} })

\* One arm of the loop body, lines 193-194 or 197-198: segment `from` acts
\* on segment `to` (the code's indices; segments[k] of the code is
\* segments[k+1] here), carried on from r = [rope, calls].
Rope_tick_apply(r, from, to) ==
  Only({ [rope |-> [r.rope EXCEPT !.segments[to+1] = now],
          calls |-> Append(r.calls,
                           Entry("spring", from, to, r.rope.segments[to+1], now,
                                 AddedForce(r.rope.segments[from+1],
                                            r.rope.segments[to+1])))]
         : now \in {apply_force_to_linked_segment(r.rope.segments[from+1],
                                                  r.rope.segments[to+1])} })

\* The loop body with its first arm only: each segment acts on the one
\* before it, none on the one after.
Rope_tick_springs_backward(self, k) ==
  IF k # 0
  THEN Rope_tick_apply([rope |-> self, calls |-> << >>], k, k - 1)
  ELSE [rope |-> self, calls |-> << >>]

\* Rope::tick, lines 192-199: the body of the first for loop at index k.
Rope_tick_springs(self, k) ==
  Only({ IF k # Len(self.segments) - 1 THEN Rope_tick_apply(left, k, k + 1) ELSE left
         : left \in {IF k # 0
                     THEN Rope_tick_apply([rope |-> self, calls |-> << >>], k, k - 1)
                     ELSE [rope |-> self, calls |-> << >>]} })

\* Rope::tick, lines 201-203: the body of the second for loop at index k.
Rope_tick_integrate(self, k) ==
  Only({ [rope |-> [self EXCEPT !.segments[k+1] = now],
          calls |-> <<Entry("tick", k, k, self.segments[k+1], now,
                            tick_force(self.segments[k+1]).force)>>]
         : now \in {RopeSegment_tick(self.segments[k+1])} })

\* --------------------------------------------------------------- bounds

MaxSegments == 3
MaxFrames == 2
MaxPulls == 1
MaxRotations == 4
MaxCoord == 2

F(n) == FromInt(n)
Millionths(n) == FDiv(FromInt(n), FromInt(1000000))

StartSet == {Vec(F(0), F(0)), Vec(F(300), F(300))}

PullSet == {<<F(100), F(0)>>, <<F(300), F(-400)>>, <<F(-600000), F(800000)>>}

RotSet == {Vec(F(a), F(b)) : a, b \in -MaxCoord..MaxCoord}

\* Speeds of a segment that has all but stopped (below ZERO_THRESHOLD, which
\* is 10 millionths), just above it, and moving.
RestSpeeds ==
  {ZERO, Vec(Millionths(5), F(0)), Vec(Millionths(-3), Millionths(4)),
   Vec(Millionths(20), F(0)), Vec(F(3), F(-4))}

\* Offsets of length exactly LENGTH, and velocities.
RestOffsets == {Vec(F(20), F(0)), Vec(F(0), F(-20)), Vec(F(12), F(16)), Vec(F(-16), F(12))}
VelSet == {ZERO, Vec(F(3), F(0)), Vec(F(-1), F(2))}

\* -------------------------------------------------------------- actions

Idle ==
  /\ pc = "idle"
  /\ i = 0
  /\ frame = 0
  /\ substep = 0
  /\ events = << >>
  /\ log = << >>
  /\ start = rope

NoRotation ==
  /\ vec0 = ZERO
  /\ vec = ZERO
  /\ flags = << >>

\* main, line 257, for a rope of n segments at pos.
Init ==
  /\ \E n \in 1..MaxSegments, pos \in StartSet :
       /\ rope = Rope_new(n, pos)
       /\ origin = pos
  /\ Idle
  /\ NoRotation

\* main, lines 261-272: a MouseMotion event of the frame's poll.
Pull ==
  /\ pc = "idle"
  /\ substep = 0
  /\ frame < MaxFrames
  /\ Len(events) < MaxPulls
  /\ \E d \in PullSet :
       /\ rope' = Rope_pull(rope, d[1], d[2])
       /\ events' = Append(events, [frame |-> frame, d |-> Vec(d[1], d[2])])
  /\ UNCHANGED <<pc, i, frame, substep, origin, start, log, rotVars>>

TickCursor ==
  /\ pc = "idle"
  /\ frame < MaxFrames
  /\ \E r \in {Rope_tick_cursor(rope)} :
       /\ rope' = r.rope
       /\ log' = r.calls
  /\ pc' = "springs"
  /\ i' = 0
  /\ start' = rope
  /\ UNCHANGED <<frame, substep, origin, events, rotVars>>

TickSprings ==
  /\ pc = "springs"
  /\ \E r \in {Rope_tick_springs(rope, i)} :
       /\ rope' = r.rope
       /\ log' = log \o r.calls
  /\ IF i + 1 = Len(rope.segments)
     THEN pc' = "integrate" /\ i' = 0
     ELSE pc' = pc /\ i' = i + 1
  /\ UNCHANGED <<frame, substep, origin, events, start, rotVars>>

TickIntegrate ==
  /\ pc = "integrate"
  /\ \E r \in {Rope_tick_integrate(rope, i)} :
       /\ rope' = r.rope
       /\ log' = log \o r.calls
  /\ IF i + 1 = Len(rope.segments)
     THEN /\ pc' = "idle"
          /\ i' = 0
          /\ substep' = (substep + 1) % SUBSTEPS
          /\ frame' = IF substep + 1 = SUBSTEPS THEN frame + 1 ELSE frame
     ELSE /\ pc' = pc
          /\ i' = i + 1
          /\ UNCHANGED <<frame, substep>>
  /\ UNCHANGED <<origin, events, start, rotVars>>

Next == Pull \/ TickCursor \/ TickSprings \/ TickIntegrate

Spec == Init /\ [][Next]_vars

\* Rope::tick alone, from ropes of one to MaxSegments segments that are all
\* but at rest or moving, with no force on them.
InitRest ==
  /\ \E n \in 1..MaxSegments, speed \in RestSpeeds :
       /\ rope = [Rope_new(n, ZERO) EXCEPT
                    !.segments = [k \in 1..n |-> [@[k] EXCEPT !.speed = speed]]]
       /\ origin = ZERO
  /\ Idle
  /\ NoRotation

NextTick == TickCursor \/ TickSprings \/ TickIntegrate

SpecRest == InitRest /\ [][NextTick]_vars

\* Rope::tick alone, from two segments exactly LENGTH apart, at any of the
\* velocities of VelSet.
InitLinked ==
  /\ \E offset \in RestOffsets, v0 \in VelSet, v1 \in VelSet :
       /\ rope = [cursor |-> ZERO,
                  segments |-> <<[pos |-> ZERO, speed |-> v0, force |-> ZERO],
                                 [pos |-> offset, speed |-> v1, force |-> ZERO]>>]
       /\ origin = ZERO
  /\ Idle
  /\ NoRotation

NextLinked == TickCursor \/ TickSprings \/ TickIntegrate

SpecLinked == InitLinked /\ [][NextLinked]_vars

\* rotated90 alone: a run of calls from a vector of RotSet.
InitRot ==
  /\ rope = Rope_new(1, ZERO)
  /\ origin = ZERO
  /\ Idle
  /\ vec0 \in RotSet
  /\ vec = vec0
  /\ flags = << >>

Rotate ==
  /\ Len(flags) < MaxRotations
  /\ \E cw \in BOOLEAN :
       /\ vec' = rotated90(vec, cw)
       /\ flags' = Append(flags, cw)
  /\ UNCHANGED <<vec0, ropeVars>>

NextRot == Rotate

SpecRot == InitRot /\ [][NextRot]_vars

\* ----------------------------------------------------------- properties

Segments == rope.segments
NSegments == Len(rope.segments)
Calls(op) == {k \in 1..Len(log) : log[k].op = op}

neg(v) == mul(v, FromInt(-1))
IsFinite(v) == ~IsNaN(v.x) /\ ~IsNaN(v.y)
Guarded(v) == IsFinite(v) /\ ~v.unguarded
SegmentGuarded(s) == Guarded(s.pos) /\ Guarded(s.speed) /\ Guarded(s.force)

\* C1 (as stated): every segment's velocity has magnitude at most SPEED_CAP
\* in every state, and the force every RopeSegment::tick integrates has
\* magnitude at most FORCE_CAP.
C1_Capped ==
  /\ \A k \in 1..NSegments : FLe(length(Segments[k].speed), SPEED_CAP)
  /\ \A k \in Calls("tick") : FLe(length(log[k].f), FORCE_CAP)

\* A cap with room for the rounding of normalized() * cap: one millionth more.
WithinRounding(len, cap) == FLe(len, FMul(cap, FAdd(FromInt(1), Millionths(1))))

\* C1 (amended): every segment's velocity has magnitude at most SPEED_CAP,
\* and the force every RopeSegment::tick integrates has magnitude at most
\* FORCE_CAP, to within rounding (one millionth of the cap).
C1_CappedWithinRounding ==
  /\ \A k \in 1..NSegments : WithinRounding(length(Segments[k].speed), SPEED_CAP)
  /\ \A k \in Calls("tick") : WithinRounding(length(log[k].f), FORCE_CAP)

\* C1's case: a tick has clamped a force above FORCE_CAP and a speed above
\* SPEED_CAP, in a direction off the axes.
C1_Witness ==
  \E k \in Calls("tick") :
    /\ FLt(FORCE_CAP, length(log[k].was.force))
    /\ FLt(SPEED_CAP, length(add(log[k].was.speed, div(log[k].f, MASS))))
    /\ log[k].was.force.x # FZero
    /\ log[k].was.force.y # FZero

\* C2: no value of the rope was computed from normalized() or project_onto()
\* of a vector shorter than ZERO_THRESHOLD, and none is NaN.
C2_NormalizedGuarded ==
  /\ Guarded(rope.cursor)
  /\ \A k \in 1..NSegments : SegmentGuarded(Segments[k])
  /\ \A k \in 1..Len(log) : SegmentGuarded(log[k].now) /\ Guarded(log[k].f)

\* C2's case: one tick has reached normalized() in length_sub and
\* project_onto (a spring that pulled) and in length_clamped (a force above
\* FORCE_CAP), and another has been through all the guards that refuse
\* (nothing to pull, a segment at rest).
C2_Witness ==
  /\ pc = "idle"
  /\ \E k \in Calls("spring") : log[k].f # ZERO
  /\ \E k \in Calls("tick") : FLt(FORCE_CAP, length(log[k].was.force))
  /\ \E k \in Calls("tick") : log[k].was.force = ZERO /\ log[k].was.speed = ZERO

\* C3: between calls (Rope::tick has returned, or has not been called yet;
\* Rope::pull calls may have been made) the force of every segment is zero.
C3_ForceZeroBetweenCalls ==
  pc = "idle" => \A k \in 1..NSegments : Segments[k].force = ZERO

\* C3's case: the first frame's last Rope::tick has returned, having
\* integrated a force that was not zero, and a Rope::pull has been made since.
C3_Witness ==
  /\ pc = "idle"
  /\ NSegments = 3
  /\ \E k \in Calls("tick") : log[k].was.force # ZERO /\ log[k].now.force = ZERO
  /\ \E k \in 1..Len(events) : events[k].frame = 1

\* Rope::new(3, (0,0)), one Rope::pull(100, 0), then 15 Rope::tick calls.
EndToEnd ==
  /\ pc = "idle"
  /\ NSegments = 3
  /\ origin = ZERO
  /\ events = <<[frame |-> 0, d |-> Vec(FromInt(100), FromInt(0))]>>
  /\ frame = 1
  /\ substep = 0

Displacement(k) == sub(Segments[k].pos, origin)

\* C4 (as stated): after the end-to-end run segment 0's x is above 0, and
\* segment 2 has moved less than segment 0, with a positive x component.
C4_TailFollows ==
  EndToEnd =>
    /\ FLt(FZero, Segments[1].pos.x)
    /\ FLt(length(Displacement(3)), length(Displacement(1)))
    /\ FLt(FZero, Displacement(3).x)

\* C4 (amended): after the end-to-end run segment 0's x is above 0 and below
\* LENGTH, and segments 1 and 2 have not moved at all.
C4_TailStill ==
  EndToEnd =>
    /\ FLt(FZero, Segments[1].pos.x)
    /\ FLt(Segments[1].pos.x, LENGTH)
    /\ FLt(length(Displacement(3)), length(Displacement(1)))
    /\ Segments[2].pos = origin
    /\ Segments[3].pos = origin

C4_Witness == EndToEnd

\* C5: a RopeSegment::tick on a segment with zero force and a velocity below
\* ZERO_THRESHOLD leaves the velocity exactly zero and the position as it was.
C5_StaysAtRest ==
  \A k \in Calls("tick") :
    (log[k].was.force = ZERO /\ FLt(length(log[k].was.speed), ZERO_THRESHOLD))
      => /\ log[k].now.speed = ZERO
         /\ log[k].now.pos = log[k].was.pos

\* C5's case: a tick of a segment with no force on it, that came in with a
\* speed that was not zero but below ZERO_THRESHOLD, has stopped it where
\* it was.
C5_Witness ==
  \E k \in Calls("tick") :
    /\ log[k].was.force = ZERO
    /\ log[k].was.speed # ZERO
    /\ FLt(length(log[k].was.speed), ZERO_THRESHOLD)
    /\ log[k].now.speed = ZERO
    /\ log[k].now.pos = log[k].was.pos

\* The distance, when the tick began, between the two segments of call k.
Separation(k) ==
  length(sub(start.segments[log[k].self + 1].pos, start.segments[log[k].linked + 1].pos))

\* C6: apply_force_to_linked_segment between two segments exactly LENGTH
\* apart leaves the linked segment as it was, in either direction.
C6_RestLengthNoOp ==
  \A k \in Calls("spring") :
    Separation(k) = LENGTH => log[k].now = log[k].was /\ log[k].f = ZERO

\* C6's case: both calls of a tick made between two segments LENGTH apart
\* along a line off the axes, that move at different velocities.
C6_Witness ==
  /\ Cardinality(Calls("spring")) = 2
  /\ \A k \in Calls("spring") : Separation(k) = LENGTH /\ log[k].now = log[k].was
  /\ start.segments[1].speed # start.segments[2].speed
  /\ start.segments[2].pos.x # FZero
  /\ start.segments[2].pos.y # FZero

OffAxis(v) == v.x # FZero /\ v.y # FZero

\* C7 (as stated): two rotated90 calls, whatever their flags, negate.
C7_TwiceNegates ==
  Len(flags) = 2 => vec = neg(vec0)

\* C7 (amended): on a vector with both components nonzero, two rotated90
\* calls with different flags negate it, and two with the same flag give
\* the vector back.
C7_TwiceOffAxis ==
  (Len(flags) = 2 /\ OffAxis(vec0)) =>
    vec = IF flags[1] # flags[2] THEN neg(vec0) ELSE vec0

C7_Witness ==
  /\ Len(flags) = 2
  /\ OffAxis(vec0)
  /\ flags[1] # flags[2]
  /\ vec = neg(vec0)
  /\ vec # vec0

SameOrAlternating ==
  \/ \A k \in 2..Len(flags) : flags[k] = flags[1]
  \/ \A k \in 2..Len(flags) : flags[k] # flags[k-1]

\* C8 (as stated): four rotated90 calls, with the same flag or alternating
\* flags, give the vector back.
C8_FourfoldIdentity ==
  (Len(flags) = 4 /\ SameOrAlternating) => vec = vec0

\* C8 (amended): on a vector with both components nonzero, four rotated90
\* calls, with the same flag or alternating flags, give the vector back.
C8_FourfoldOffAxis ==
  (Len(flags) = 4 /\ SameOrAlternating /\ OffAxis(vec0)) => vec = vec0

C8_Witness ==
  /\ Len(flags) = 4
  /\ flags[1] # flags[2]
  /\ SameOrAlternating
  /\ OffAxis(vec0)
  /\ vec = vec0

\* The phase of a call: the cursor pull, the springs, the integration.
Phase(op) == IF op = "pull" THEN 1 ELSE IF op = "spring" THEN 2 ELSE 3

\* The ordered pairs of adjacent segments (the code's indices).
AdjacentPairs(n) ==
  {<<a, b>> \in (0..n-1) \X (0..n-1) : a = b + 1 \/ b = a + 1}

\* C9: the calls of a tick come in phase order, none twice; a tick that has
\* returned has pulled segment 0 exactly when the cursor was more than
\* ZERO_THRESHOLD away, has made one spring call for each ordered adjacent
\* pair and integrated each segment once; and until the first integration
\* every segment has the position and velocity it had when the tick began.
C9_Phases ==
  /\ \A j, k \in 1..Len(log) :
       j < k => /\ Phase(log[j].op) <= Phase(log[k].op)
                /\ <<log[j].op, log[j].self, log[j].linked>>
                     # <<log[k].op, log[k].self, log[k].linked>>
  /\ \A k \in Calls("spring") : <<log[k].self, log[k].linked>> \in AdjacentPairs(NSegments)
  /\ (Calls("tick") = {} /\ pc # "idle") =>
       \A k \in 1..NSegments :
         /\ Segments[k].pos = start.segments[k].pos
         /\ Segments[k].speed = start.segments[k].speed
  /\ (pc = "integrate" \/ (pc = "idle" /\ log # << >>)) =>
       /\ (Calls("pull") # {}) =
            FGt(length(sub(start.cursor, start.segments[1].pos)), ZERO_THRESHOLD)
       /\ {<<log[k].self, log[k].linked>> : k \in Calls("spring")} = AdjacentPairs(NSegments)
  /\ (pc = "idle" /\ (frame > 0 \/ substep > 0)) =>
       {log[k].self : k \in Calls("tick")} = 0..NSegments-1

\* C9's case: a tick of three segments has returned after all three phases
\* had something to do.
C9_Witness ==
  /\ pc = "idle"
  /\ NSegments = 3
  /\ Calls("pull") # {}
  /\ \A k \in Calls("spring") : log[k].f # ZERO
  /\ Cardinality(Calls("spring")) = 4
  /\ Cardinality(Calls("tick")) = 3

\* The sum of the forces of the first n spring calls of the tick, in the
\* order the calls were made.
RECURSIVE SpringSum(_)
SpringSum(n) ==
  IF n = 0 THEN ZERO
  ELSE IF log[n].op = "spring" THEN add(SpringSum(n - 1), log[n].f)
  ELSE SpringSum(n - 1)

\* C10: the forces of the two spring calls of an adjacent pair are exact
\* negations of each other, so each pair's two forces sum to the zero vector,
\* and so do the forces of all the spring calls of a tick once they are made.
C10_PairNegated ==
  /\ \A j, k \in Calls("spring") :
       (log[j].self = log[k].linked /\ log[j].linked = log[k].self) =>
         /\ log[j].f = neg(log[k].f)
         /\ add(log[j].f, log[k].f) = ZERO
  /\ pc # "springs" => SpringSum(Len(log)) = ZERO

\* C10's case: a pair has exchanged forces off the axes while its segments
\* moved at different velocities, so that the damping term counted.
C10_Witness ==
  \E j, k \in Calls("spring") :
    /\ log[j].self = log[k].linked
    /\ log[j].linked = log[k].self
    /\ OffAxis(log[j].f)
    /\ start.segments[log[j].self + 1].speed # start.segments[log[k].self + 1].speed
    /\ log[j].f = neg(log[k].f)

====
